---- MODULE Spec2Model ----
(***************************************************************************)
(* Model of src/time.rs: the two Perf UI entries PerfUiEntryRunningTime    *)
(* and PerfUiEntryClock and their PerfUiEntry implementations (label,      *)
(* sort_key, update_value, format_value).                                  *)
(*                                                                         *)
(* A Duration is the pair [secs, nanos] of core::time::Duration, an        *)
(* Option is a record tagged "Some" / "None", and the outcome of a call    *)
(* that panics is the record tagged "panic".  A clock value, the tuple     *)
(* (h, m, s, nanos), is the record of these four.  Formatted values are    *)
(* sequences of one-character strings; labels are strings.                 *)
(***************************************************************************)
EXTENDS Integers, Sequences, FiniteSets, TLC

(***************************************************************************)
(* Bounds of the model.                                                    *)
(***************************************************************************)
\* entries constructed with chosen options (specification Spec)
MaxEntries == 1
\* entries constructed with Default::default() alone (specification SpecKeys)
MaxDefaults == 6
\* largest small count of whole seconds among the engine's elapsed times
MaxSecs == 2

(***************************************************************************)
(* Values.                                                                 *)
(***************************************************************************)
NANOS_PER_SEC == 1000000000

None == [tag |-> "None"]
Some(v) == [tag |-> "Some", val |-> v]
Panic == [tag |-> "panic"]

Duration(secs, nanos) == [secs |-> secs, nanos |-> nanos]

\* PerfUiEntryClock::Value, (h, m, s, nanos)
ClockValue(h, m, s, nanos) == [h |-> h, m |-> m, s |-> s, nanos |-> nanos]

\* Duration::checked_sub, the body of `elapsed - start`
checked_sub(a, b) ==
    IF a.secs >= b.secs
    THEN IF a.nanos >= b.nanos
         THEN Some(Duration(a.secs - b.secs, a.nanos - b.nanos))
         ELSE IF a.secs - b.secs >= 1
              THEN Some(Duration(a.secs - b.secs - 1,
                                 a.nanos + NANOS_PER_SEC - b.nanos))
              ELSE None
    ELSE None

\* `impl Sub for Duration`: checked_sub(..).expect("overflow when subtracting
\* durations"): the subtraction of a larger duration panics
Duration_sub(a, b) ==
    LET d == checked_sub(a, b)
    IN  IF d.tag = "None" THEN Panic ELSE d

\* Duration::as_secs_f64: the seconds as a number with a whole part and nine
\* fractional digits (the f64's rounding below a nanosecond is not modelled)
as_secs_f64(d) == [whole |-> d.secs, frac |-> d.nanos]

(***************************************************************************)
(* The inputs the actions draw from.                                       *)
(***************************************************************************)
Labels == {"", "Uptime"}
\* the engine's elapsed times
NanoVals == {0, 456700000, 999999999}
Durations == {Duration(s, n) : s \in 0..MaxSecs, n \in NanoVals}
\* the durations given to format_value
FormatValues ==
    {Duration(0, 0), Duration(MaxSecs, 999999999), Duration(123, 456700000),
     Duration(3725, 0)}
StartVals == {None, Some(Duration(1, 456700000))}
DigitVals == {2, 5}
PrecisionVals == {0, 3}
\* the (digits, precision) pairs an entry is constructed with
Widths == {<<5, 3>>, <<2, 0>>}

\* the system clock, as whole seconds (floored) and nanoseconds relative to
\* UNIX_EPOCH; a negative count of seconds is a clock before the epoch
SysTimes ==
    {Duration(-1, 999999999), Duration(0, 0), Duration(3599, 999999999),
     Duration(50709, 0), Duration(86399, 999999999),
     Duration(86400 + MaxSecs, 456700000)}
\* the local timezone's offset from UTC, in seconds
TzOffsets == {-18000, 19800}
\* the clock values given to format_value
ClockValues ==
    {ClockValue(0, 0, 0, 0), ClockValue(14, 5, 9, 456700000),
     ClockValue(23, 59, 59, 999999999)}

(***************************************************************************)
(* The pretty-printers of crate::utils (not part of src/time.rs).          *)
(***************************************************************************)
DigitChar(d) == <<"0", "1", "2", "3", "4", "5", "6", "7", "8", "9">>[d + 1]

RECURSIVE Decimal(_)
Decimal(n) ==
    IF n < 10 THEN <<DigitChar(n)>>
    ELSE Decimal(n \div 10) \o <<DigitChar(n % 10)>>

Zeros(k) == [i \in 1..k |-> "0"]

\* n in decimal, zero-padded on the left to at least `width` characters
ZeroPad(n, width) ==
    LET s == Decimal(n)
    IN  IF Len(s) >= width THEN s ELSE Zeros(width - Len(s)) \o s

\* the fractional part: "." and the first `precision` digits of the
\* nanoseconds (truncated), nothing when precision = 0
Fraction(nanos, precision) ==
    IF precision = 0 THEN <<>>
    ELSE LET all == ZeroPad(nanos, 9) \o Zeros(IF precision > 9 THEN precision - 9 ELSE 0)
         IN  <<".">> \o SubSeq(all, 1, precision)

format_pretty_float(digits, precision, value) ==
    ZeroPad(value.whole, digits) \o Fraction(value.frac, precision)

format_pretty_time_hms(precision, h, m, s, nanos) ==
    ZeroPad(h, 2) \o <<":">> \o ZeroPad(m, 2) \o <<":">> \o ZeroPad(s, 2)
        \o Fraction(nanos, precision)

format_pretty_time(precision, value) ==
    format_pretty_time_hms(precision, value.secs \div 3600,
                           (value.secs \div 60) % 60, value.secs % 60,
                           value.nanos)

\* crate::utils::next_sort_key: the process-wide counter of default sort
\* keys; returns the key and the counter after the call
next_sort_key(counter) == [key |-> counter, counter |-> counter + 1]

(***************************************************************************)
(* Construction.                                                           *)
(***************************************************************************)
\* a plausible slip: a fixed sort key, the counter never consulted
RunningTime_default_FixedKey(counter) ==
    [entry |-> [kind |-> "RunningTime", label |-> "", start |-> None,
                format_hms |-> FALSE, display_units |-> TRUE, digits |-> 5,
                precision |-> 3, sort_key |-> 0],
     counter |-> counter]

\* impl Default for PerfUiEntryRunningTime: the entry and the counter after
RunningTime_default(counter) ==
    LET k == next_sort_key(counter)
    IN  [entry |-> [kind |-> "RunningTime", label |-> "", start |-> None,
                    format_hms |-> FALSE, display_units |-> TRUE, digits |-> 5,
                    precision |-> 3, sort_key |-> k.key],
         counter |-> k.counter]

\* impl Default for PerfUiEntryClock
Clock_default(counter) ==
    LET k == next_sort_key(counter)
    IN  [entry |-> [kind |-> "Clock", label |-> "", prefer_utc |-> FALSE,
                    precision |-> 0, sort_key |-> k.key],
         counter |-> k.counter]

(***************************************************************************)
(* impl PerfUiEntry for PerfUiEntryRunningTime.  update_value takes        *)
(* &mut self: it yields the entry after the call and the returned value.   *)
(***************************************************************************)
\* a plausible slip: the default label whatever the custom label
RunningTime_label_AlwaysDefault(self) == "Running Time"

RunningTime_label(self) ==
    IF self.label = "" THEN "Running Time" ELSE self.label

RunningTime_sort_key(self) == self.sort_key

\* a plausible slip: the baseline added instead of subtracted
RunningTime_update_value_Added(self, elapsed) ==
    [self |-> self,
     ret |-> IF self.start.tag = "Some"
             THEN Some(Duration(elapsed.secs + self.start.val.secs
                                  + (elapsed.nanos + self.start.val.nanos) \div NANOS_PER_SEC,
                                (elapsed.nanos + self.start.val.nanos) % NANOS_PER_SEC))
             ELSE Some(elapsed)]

\* a plausible slip: the call moves the baseline to the current time
RunningTime_update_value_Rebased(self, elapsed) ==
    [self |-> [self EXCEPT !.start = Some(elapsed)],
     ret |-> Some(elapsed)]

RunningTime_update_value(self, elapsed) ==
    [self |-> self,
     ret |-> IF self.start.tag = "Some"
             THEN Duration_sub(elapsed, self.start.val)
             ELSE Some(elapsed)]

\* a plausible slip: the unit appended in both modes
RunningTime_format_value_UnitInHms(self, value) ==
    LET s == IF self.format_hms
             THEN format_pretty_time(self.precision, value)
             ELSE format_pretty_float(self.digits, self.precision, as_secs_f64(value))
    IN  IF self.display_units THEN s \o <<" ", "s">> ELSE s

RunningTime_format_value(self, value) ==
    IF self.format_hms
    THEN format_pretty_time(self.precision, value)
    ELSE LET s == format_pretty_float(self.digits, self.precision, as_secs_f64(value))
         IN  IF self.display_units THEN s \o <<" ", "s">> ELSE s

(***************************************************************************)
(* The clock reads.  `sys` is the system clock relative to UNIX_EPOCH,     *)
(* `tz` the local timezone's offset.                                       *)
(***************************************************************************)
\* chrono::Local::now(): the local wall clock, read through Timelike
\* (hour, minute, second) and timestamp_subsec_nanos
LocalNow(sys, tz) ==
    LET t == sys.secs + tz
    IN  [hour |-> (t \div 3600) % 24, minute |-> (t \div 60) % 60,
         second |-> t % 60, nanos |-> sys.nanos]

\* #[cfg(feature = "chrono")] fn get_system_clock_local
get_system_clock_local(sys, tz) ==
    LET now == LocalNow(sys, tz)
    IN  Some(ClockValue(now.hour, now.minute, now.second, now.nanos))

\* SystemTime::now().duration_since(UNIX_EPOCH): Err before the epoch
duration_since_epoch(sys) ==
    IF sys.secs < 0 THEN [tag |-> "Err"] ELSE [tag |-> "Ok", val |-> sys]

\* a plausible slip: the hour not reduced modulo 24
get_system_clock_utc_NoDayWrap(sys) ==
    LET now == duration_since_epoch(sys)
    IN  IF now.tag = "Err" THEN None
        ELSE LET secs == now.val.secs
             IN  Some(ClockValue(secs \div 3600, (secs \div 60) % 60, secs % 60,
                                 now.val.nanos))

\* a plausible slip: the failed read unwrapped into the epoch itself
get_system_clock_utc_Unwrapped(sys) ==
    LET now == duration_since_epoch(sys)
    IN  IF now.tag = "Err" THEN Some(ClockValue(0, 0, 0, 0))
        ELSE LET secs == now.val.secs
             IN  Some(ClockValue((secs \div 3600) % 24, (secs \div 60) % 60,
                                 secs % 60, now.val.nanos))

get_system_clock_utc(sys) ==
    LET now == duration_since_epoch(sys)
    IN  IF now.tag = "Err" THEN None
        ELSE LET secs == now.val.secs
                 h == (secs \div 3600) % 24
                 m == (secs \div 60) % 60
                 s == secs % 60
                 nanos == now.val.nanos
             IN  Some(ClockValue(h, m, s, nanos))

(***************************************************************************)
(* impl PerfUiEntry for PerfUiEntryClock.  `feature` is                    *)
(* cfg!(feature = "chrono").                                               *)
(***************************************************************************)
\* a plausible slip: prefer_utc not consulted
Clock_label_IgnoresPreferUtc(feature, self) ==
    IF self.label = ""
    THEN IF feature THEN "Clock" ELSE "Clock (UTC)"
    ELSE self.label

Clock_label(feature, self) ==
    IF self.label = ""
    THEN IF feature /\ ~self.prefer_utc THEN "Clock" ELSE "Clock (UTC)"
    ELSE self.label

Clock_sort_key(self) == self.sort_key

\* a plausible slip: the local clock read whenever chrono is compiled in
Clock_update_value_IgnoresPreferUtc(feature, self, sys, tz) ==
    IF feature
    THEN [self |-> self, ret |-> get_system_clock_local(sys, tz), local_read |-> TRUE]
    ELSE [self |-> self, ret |-> get_system_clock_utc(sys), local_read |-> FALSE]

\* the entry after the call, the returned value, and whether the local
\* clock was read
Clock_update_value(feature, self, sys, tz) ==
    IF feature /\ ~self.prefer_utc
    THEN [self |-> self, ret |-> get_system_clock_local(sys, tz), local_read |-> TRUE]
    ELSE [self |-> self, ret |-> get_system_clock_utc(sys), local_read |-> FALSE]

Clock_format_value(self, value) ==
    format_pretty_time_hms(self.precision, value.h, value.m, value.s, value.nanos)

(***************************************************************************)
(* The state: the build's `chrono` feature, the process-wide sort-key      *)
(* counter, the entries the application has constructed (in construction   *)
(* order), and the last call made on an entry: its argument (None when it  *)
(* takes none) and its outcome, a record: [label |-> ..] of label(),       *)
(* [sort_key |-> ..] of sort_key(), the Option (or the panic) of           *)
(* update_value, [text |-> ..] of format_value.                            *)
(***************************************************************************)
VARIABLES chrono, NEXT_SORT_KEY, entries, last

vars == <<chrono, NEXT_SORT_KEY, entries, last>>

Call(op, i, arg, ret, local_read) ==
    [op |-> op, i |-> i, arg |-> arg, ret |-> ret, local_read |-> local_read]

Init ==
    /\ chrono \in BOOLEAN
    /\ NEXT_SORT_KEY = 0
    /\ entries = <<>>
    /\ last = Call("none", 0, None, None, FALSE)

\* PerfUiEntryRunningTime { label, start, .., ..default() }
NewRunningTime(label, start, format_hms, display_units, digits, precision) ==
    /\ Len(entries) < MaxEntries
    /\ LET d == RunningTime_default(NEXT_SORT_KEY)
       IN  /\ entries' = Append(entries,
                  [d.entry EXCEPT !.label = label, !.start = start,
                                  !.format_hms = format_hms,
                                  !.display_units = display_units,
                                  !.digits = digits, !.precision = precision])
           /\ NEXT_SORT_KEY' = d.counter
    /\ last' = Call("new", Len(entries) + 1, None, None, FALSE)
    /\ UNCHANGED chrono

\* PerfUiEntryClock { label, prefer_utc, precision, ..default() }
NewClock(label, prefer_utc, precision) ==
    /\ Len(entries) < MaxEntries
    /\ LET d == Clock_default(NEXT_SORT_KEY)
       IN  /\ entries' = Append(entries,
                  [d.entry EXCEPT !.label = label, !.prefer_utc = prefer_utc,
                                  !.precision = precision])
           /\ NEXT_SORT_KEY' = d.counter
    /\ last' = Call("new", Len(entries) + 1, None, None, FALSE)
    /\ UNCHANGED chrono

\* PerfUiEntryRunningTime::default()
DefaultRunningTime ==
    /\ Len(entries) < MaxDefaults
    /\ LET d == RunningTime_default(NEXT_SORT_KEY)
       IN  /\ entries' = Append(entries, d.entry)
           /\ NEXT_SORT_KEY' = d.counter
    /\ last' = Call("new", Len(entries) + 1, None, None, FALSE)
    /\ UNCHANGED chrono

\* PerfUiEntryClock::default()
DefaultClock ==
    /\ Len(entries) < MaxDefaults
    /\ LET d == Clock_default(NEXT_SORT_KEY)
       IN  /\ entries' = Append(entries, d.entry)
           /\ NEXT_SORT_KEY' = d.counter
    /\ last' = Call("new", Len(entries) + 1, None, None, FALSE)
    /\ UNCHANGED chrono

RunningTimeLabel(i) ==
    /\ entries[i].kind = "RunningTime"
    /\ last' = Call("RunningTime.label", i, None,
                    [label |-> RunningTime_label(entries[i])], FALSE)
    /\ UNCHANGED <<chrono, NEXT_SORT_KEY, entries>>

RunningTimeSortKey(i) ==
    /\ entries[i].kind = "RunningTime"
    /\ last' = Call("RunningTime.sort_key", i, None,
                    [sort_key |-> RunningTime_sort_key(entries[i])], FALSE)
    /\ UNCHANGED <<chrono, NEXT_SORT_KEY, entries>>

\* `elapsed` is time.elapsed() of the engine's Time resource
RunningTimeUpdateValue(i, elapsed) ==
    /\ entries[i].kind = "RunningTime"
    /\ LET r == RunningTime_update_value(entries[i], elapsed)
       IN  /\ entries' = [entries EXCEPT ![i] = r.self]
           /\ last' = Call("RunningTime.update_value", i, elapsed, r.ret, FALSE)
    /\ UNCHANGED <<chrono, NEXT_SORT_KEY>>

RunningTimeFormatValue(i, value) ==
    /\ entries[i].kind = "RunningTime"
    /\ last' = Call("RunningTime.format_value", i, value,
                    [text |-> RunningTime_format_value(entries[i], value)], FALSE)
    /\ UNCHANGED <<chrono, NEXT_SORT_KEY, entries>>

ClockLabel(i) ==
    /\ entries[i].kind = "Clock"
    /\ last' = Call("Clock.label", i, None,
                    [label |-> Clock_label(chrono, entries[i])], FALSE)
    /\ UNCHANGED <<chrono, NEXT_SORT_KEY, entries>>

ClockSortKey(i) ==
    /\ entries[i].kind = "Clock"
    /\ last' = Call("Clock.sort_key", i, None,
                    [sort_key |-> Clock_sort_key(entries[i])], FALSE)
    /\ UNCHANGED <<chrono, NEXT_SORT_KEY, entries>>

\* `sys` and `tz` are what the operating environment's clocks show
ClockUpdateValue(i, sys, tz) ==
    /\ entries[i].kind = "Clock"
    /\ LET r == Clock_update_value(chrono, entries[i], sys, tz)
       IN  /\ entries' = [entries EXCEPT ![i] = r.self]
           /\ last' = Call("Clock.update_value", i, [sys |-> sys, tz |-> tz],
                           r.ret, r.local_read)
    /\ UNCHANGED <<chrono, NEXT_SORT_KEY>>

ClockFormatValue(i, value) ==
    /\ entries[i].kind = "Clock"
    /\ last' = Call("Clock.format_value", i, value,
                    [text |-> Clock_format_value(entries[i], value)], FALSE)
    /\ UNCHANGED <<chrono, NEXT_SORT_KEY, entries>>

Next ==
    \/ \E label \in Labels, start \in StartVals, format_hms \in BOOLEAN,
          display_units \in BOOLEAN, w \in Widths :
          NewRunningTime(label, start, format_hms, display_units, w[1], w[2])
    \/ \E label \in Labels, prefer_utc \in BOOLEAN, precision \in PrecisionVals :
          NewClock(label, prefer_utc, precision)
    \/ \E i \in 1..Len(entries) : RunningTimeLabel(i)
    \/ \E i \in 1..Len(entries) : RunningTimeSortKey(i)
    \/ \E i \in 1..Len(entries), elapsed \in Durations : RunningTimeUpdateValue(i, elapsed)
    \/ \E i \in 1..Len(entries), value \in FormatValues : RunningTimeFormatValue(i, value)
    \/ \E i \in 1..Len(entries) : ClockLabel(i)
    \/ \E i \in 1..Len(entries) : ClockSortKey(i)
    \/ \E i \in 1..Len(entries), sys \in SysTimes, tz \in TzOffsets : ClockUpdateValue(i, sys, tz)
    \/ \E i \in 1..Len(entries), value \in ClockValues : ClockFormatValue(i, value)

Spec == Init /\ [][Next]_vars

\* entries of both kinds default-constructed one after the other
NextKeys ==
    \/ DefaultRunningTime
    \/ DefaultClock
    \/ \E i \in 1..Len(entries) : RunningTimeSortKey(i)
    \/ \E i \in 1..Len(entries) : ClockSortKey(i)

SpecKeys == Init /\ [][NextKeys]_vars

(***************************************************************************)
(* Properties.                                                             *)
(***************************************************************************)
\* the entry the last call was made on
Self == entries[last.i]

DurationLe(a, b) == a.secs < b.secs \/ (a.secs = b.secs /\ a.nanos <= b.nanos)

\* a + b, with the carry of the nanoseconds
DurationSum(a, b) ==
    Duration(a.secs + b.secs + (a.nanos + b.nanos) \div NANOS_PER_SEC,
             (a.nanos + b.nanos) % NANOS_PER_SEC)

EndsWithUnit(s) == Len(s) >= 2 /\ s[Len(s) - 1] = " " /\ s[Len(s)] = "s"

\* C1: PerfUiEntryRunningTime::update_value returns a value and does not
\* panic, for every elapsed time and every `start`, a `start` greater than
\* the elapsed time included.
RunningTimeUpdateAlwaysSucceeds ==
    last.op = "RunningTime.update_value" => last.ret.tag = "Some"

\* C2: update_value returns Some(elapsed) when `start` is unset, and
\* Some(elapsed - x) exactly when start = Some(x) with x <= elapsed: the
\* result is a well-formed duration r with r + x = elapsed.
RunningTimeUpdateSubtractsStart ==
    last.op = "RunningTime.update_value" =>
        /\ Self.start = None => last.ret = Some(last.arg)
        /\ (Self.start.tag = "Some" /\ DurationLe(Self.start.val, last.arg)) =>
              /\ last.ret.tag = "Some"
              /\ last.ret.val.secs >= 0
              /\ last.ret.val.nanos \in 0..(NANOS_PER_SEC - 1)
              /\ DurationSum(last.ret.val, Self.start.val) = last.arg

\* C2's case: a baseline below the elapsed time whose nanoseconds exceed the
\* elapsed time's, so that the subtraction borrows a second
RunningTimeUpdateBorrowed ==
    /\ last.op = "RunningTime.update_value"
    /\ Self.start.tag = "Some"
    /\ DurationLe(Self.start.val, last.arg)
    /\ last.arg.nanos < Self.start.val.nanos
    /\ last.ret.tag = "Some"

\* C3: a value (h, m, s, ns) returned by PerfUiEntryClock::update_value has
\* h in 0..23, m in 0..59, s in 0..59 and ns in 0..999,999,999; on the UTC
\* path h = (secs / 3600) mod 24, m = (secs / 60) mod 60, s = secs mod 60
\* of the whole seconds since the epoch (so h:m:s is the second of the day).
ClockValueInRange ==
    (last.op = "Clock.update_value" /\ last.ret.tag = "Some") =>
        LET h == last.ret.val.h
            m == last.ret.val.m
            s == last.ret.val.s
            ns == last.ret.val.nanos
            secs == last.arg.sys.secs
        IN  /\ h \in 0..23
            /\ m \in 0..59
            /\ s \in 0..59
            /\ ns \in 0..999999999
            /\ ~last.local_read =>
                  /\ secs >= 0
                  /\ h = (secs \div 3600) % 24
                  /\ m = (secs \div 60) % 60
                  /\ s = secs % 60
                  /\ h * 3600 + m * 60 + s = secs % 86400
                  /\ ns = last.arg.sys.nanos

\* C3's case: the UTC path on a clock more than a day after the epoch
ClockUtcPastFirstDay ==
    /\ last.op = "Clock.update_value"
    /\ ~last.local_read
    /\ last.arg.sys.secs >= 86400
    /\ last.ret.tag = "Some"

ClockPreferUtcIgnoresLocal ==
    (last.op = "Clock.update_value" /\ Self.prefer_utc) =>
        /\ ~last.local_read
        /\ last.ret = get_system_clock_utc(last.arg.sys)
        /\ \A feature \in BOOLEAN, tz \in TzOffsets :
              LET r == Clock_update_value(feature, Self, last.arg.sys, tz)
              IN  r.ret = last.ret /\ ~r.local_read

\* C5's case: prefer_utc on a build with the chrono feature
ClockPreferUtcWithChrono ==
    /\ last.op = "Clock.update_value"
    /\ chrono
    /\ Self.prefer_utc
    /\ last.ret.tag = "Some"

\* C6: of two entries (of either kind) default-constructed one after the
\* other, the later has the greater sort_key.
DefaultSortKeysIncrease ==
    \A i, j \in 1..Len(entries) :
        i < j => entries[i].sort_key < entries[j].sort_key

\* C6's case: entries of both kinds constructed in a mix
DefaultsOfBothKinds ==
    /\ Len(entries) >= 3
    /\ entries[1].kind = "RunningTime"
    /\ entries[2].kind = "Clock"
    /\ entries[3].kind = "RunningTime"

\* C7: PerfUiEntryClock::label returns the custom label when it is
\* non-empty; otherwise "Clock" if the chrono feature is compiled in and
\* prefer_utc is false, and "Clock (UTC)" in every other case.
ClockLabelCases ==
    last.op = "Clock.label" =>
        /\ Self.label # "" => last.ret.label = Self.label
        /\ (Self.label = "" /\ chrono /\ ~Self.prefer_utc) => last.ret.label = "Clock"
        /\ (Self.label = "" /\ ~(chrono /\ ~Self.prefer_utc)) =>
              last.ret.label = "Clock (UTC)"

\* C7's case: the default label on a chrono build with prefer_utc set
ClockLabelUtcOnChrono ==
    /\ last.op = "Clock.label"
    /\ chrono
    /\ Self.prefer_utc
    /\ Self.label = ""
    /\ last.ret.label = "Clock (UTC)"

\* C8: PerfUiEntryRunningTime::label returns the custom label exactly when
\* it is non-empty, and "Running Time" when it is empty.
RunningTimeLabelCases ==
    last.op = "RunningTime.label" =>
        /\ Self.label # "" <=> last.ret.label = Self.label
        /\ Self.label = "" => last.ret.label = "Running Time"

\* C8's case: a custom label
RunningTimeCustomLabel ==
    /\ last.op = "RunningTime.label"
    /\ Self.label = "Uptime"
    /\ last.ret.label = "Uptime"

\* C9: PerfUiEntryRunningTime::format_value: with format_hms the result is
\* the HH:MM:SS formatter's output for the precision, without a unit suffix,
\* whatever digits and display_units are; without format_hms it is the
\* fixed-decimal formatter's output for (digits, precision, seconds),
\* followed by " s" if and only if display_units.
RunningTimeFormatModes ==
    last.op = "RunningTime.format_value" =>
        /\ Self.format_hms =>
              /\ last.ret.text = format_pretty_time(Self.precision, last.arg)
              /\ ~EndsWithUnit(last.ret.text)
              /\ \A digits \in DigitVals, display_units \in BOOLEAN :
                    RunningTime_format_value(
                        [Self EXCEPT !.digits = digits, !.display_units = display_units],
                        last.arg) = last.ret.text
        /\ ~Self.format_hms =>
              /\ last.ret.text =
                    format_pretty_float(Self.digits, Self.precision,
                                        as_secs_f64(last.arg))
                        \o (IF Self.display_units THEN <<" ", "s">> ELSE <<>>)
              /\ EndsWithUnit(last.ret.text) <=> Self.display_units

\* C9's case: HH:MM:SS mode with display_units set
RunningTimeHmsWithUnits ==
    /\ last.op = "RunningTime.format_value"
    /\ Self.format_hms
    /\ Self.display_units
    /\ last.arg = Duration(3725, 0)
    /\ Self.precision = 0
    /\ last.ret.text = <<"0", "1", ":", "0", "2", ":", "0", "5">>

CallOps ==
    {"RunningTime.label", "RunningTime.sort_key", "RunningTime.update_value",
     "RunningTime.format_value", "Clock.label", "Clock.sort_key",
     "Clock.update_value", "Clock.format_value"}

\* C10: a label, sort_key, update_value or format_value call leaves every
\* field of every entry (start and sort_key among them) and the sort-key
\* counter as they were, and sort_key() returns the stored sort_key.
CallsLeaveEntriesUnchanged ==
    /\ [][last'.op \in CallOps =>
            (entries' = entries /\ NEXT_SORT_KEY' = NEXT_SORT_KEY)]_vars
    /\ [](last.op \in {"RunningTime.sort_key", "Clock.sort_key"} =>
            last.ret.sort_key = Self.sort_key)

\* C10's case: update_value, which takes the entry mutably, called on an
\* entry with a baseline
RunningTimeUpdatedWithStart ==
    /\ last.op = "RunningTime.update_value"
    /\ Self.start.tag = "Some"
    /\ last.ret.tag = "Some"

====
